---- MODULE Spec2Model ----
(***************************************************************************)
(* Model of the schema upgrade engine of store/sqlstore/upgrade.go:        *)
(* Container.getVersion, Container.setVersion and Container.Upgrade over   *)
(* the Upgrades registry, run by a single caller against a transactional  *)
(* SQL store.  Every database call may fail.  The database is modelled by  *)
(* its contract: statements executed on a *sql.Tx (DDL included) become    *)
(* durable only when Commit succeeds, a Commit that returns an error makes *)
(* nothing durable, statements executed on c.db are autocommitted, and a   *)
(* transaction that is never committed is never made durable.              *)
(***************************************************************************)
EXTENDS Integers, Sequences, FiniteSets, TLC

\* len(Upgrades): upgradeV1 .. upgradeV4
N == 4

\* number of Upgrade() calls explored
MaxCalls == 3

Steps == 0 .. (N - 1)

\* What a registry step has done to the schema: nothing, some of its
\* statements (upgradeV1 runs many CREATE TABLEs, upgradeV2 two Execs), all.
EffectStates == {"none", "partial", "full"}

VARIABLES
    durable,      \* committed database: [table, eff, rows]
    tx,           \* the *sql.Tx of the running iteration: [open, eff, rows]
    leaked,       \* transactions begun by Upgrade, never committed or rolled back
    pc,           \* position of the caller inside Upgrade()
    version,      \* Upgrade's local variable `version`
    err,          \* whether the last Upgrade() returned an error
    errOp,        \* the operation whose error Upgrade() returned
    gvRet,        \* what getVersion returned: [version, err]
    gvReadFailed, \* the read of the version row failed in this call
    invoked,      \* registry indexes invoked by this call, in order
    commits,      \* transactions committed by this call
    startVer,     \* persisted version when this call started
    startTable,   \* whether the version table existed when this call started
    prevFailAt,   \* loop index at which the previous call failed, else -1
    calls,        \* Upgrade() calls made so far
    committed,    \* step transactions committed since the store was fresh
    log,          \* database operations of this call's loop, in order
    prevFailOp,   \* the operation that failed the previous call
    dialect,      \* Container.dialect
    v2sql,        \* the backfill statement upgradeV2 executed last
    devices,      \* rows of whatsmeow_device before the backfill: their jids
    identities,   \* rows of whatsmeow_identity_keys before the backfill
    filled        \* whatsmeow_device after the backfill, per dialect

vars == <<durable, tx, leaked, pc, version, err, errOp, gvRet, gvReadFailed,
          invoked, commits, startVer, startTable, prevFailAt, calls,
          committed, log, prevFailOp, dialect, v2sql,
          devices, identities, filled>>

\* the tables the backfill of upgradeV2 works on
fillVars == <<devices, identities, filled>>

NoEffects == [i \in Steps |-> "none"]

ClosedTx == [open |-> FALSE, eff |-> NoEffects, rows |-> <<>>]

\* variant of QueryVersion: the row is never read into `version`
QueryVersionZero(rows) == 0

\* row.Scan(&version) over "SELECT version FROM whatsmeow_version LIMIT 1":
\* version keeps its initial 0 when there is no row (sql.ErrNoRows is dropped).
QueryVersion(rows) == IF Len(rows) = 0 THEN 0 ELSE rows[1]

\* the persisted schema version: the value of the committed version row,
\* 0 when no row exists
PersistedVersion == IF durable.rows = <<>> THEN 0 ELSE durable.rows[1]

\* variant of CreateTableIfNotExists: the table is not created
CreateTableNoop(d) == d

\* CREATE TABLE IF NOT EXISTS whatsmeow_version (version INTEGER)
CreateTableIfNotExists(d) == [d EXCEPT !.table = TRUE]

\* variant of DeleteRows: setVersion inserts without clearing
DeleteRowsNoop(rows) == rows

\* DELETE FROM whatsmeow_version
DeleteRows(rows) == <<>>

\* INSERT INTO whatsmeow_version (version) VALUES (?)
InsertRow(rows, v) == Append(rows, v)

\* setVersion: clear, then insert
SetVersionRows(rows, v) == InsertRow(DeleteRows(rows), v)

\* variant of LoopCond: the loop runs until the version equals the length
LoopCondNotEqual(v) == v # N

\* variant of LoopCond: the loop stops one step early
LoopCondShort(v) == v < N - 1

\* for ; version < len(Upgrades); version++
LoopCond(v) == v < N

\* variant of StepBlocked: the steps' DDL is idempotent
StepBlockedNever(eff, i) == FALSE

\* Every step opens with DDL that is not idempotent (CREATE TABLE without
\* IF NOT EXISTS, ALTER TABLE ADD COLUMN): it fails when its object exists.
StepBlocked(eff, i) == eff[i] # "none"

\* variant of CommitDurable: the version row is not part of the commit
CommitEffectsOnly(d, t) == [d EXCEPT !.eff = t.eff]

\* tx.Commit(): the transaction's effects and version row become durable
CommitDurable(d, t) == [d EXCEPT !.eff = t.eff, !.rows = t.rows]

\* variant of RollbackDurable: the failed step's statements are kept
RollbackKeeps(d, t) == CommitDurable(d, t)

\* tx.Rollback(): the committed store is left as it was
RollbackDurable(d, t) == d

\* values of Container.dialect: the two names upgradeV2 tests for, the
\* SQLite driver name, and a dialect upgradeV2 has no statement for
Dialects == {"postgres", "pgx", "sqlite3", "mysql"}

\* the dialects one of upgradeV2's two backfill statements is written for
TemplateDialects == {"postgres", "pgx", "sqlite3"}

\* upgradeV2: the backfill statement chosen for the container's dialect
V2Template(d) ==
    IF d = "postgres" \/ d = "pgx" THEN "fillSigKeyPostgres"
                                   ELSE "fillSigKeySQLite"

\* the statement upgradeV2 (registry index 1) executes after its ALTER TABLE
StepSql(i, d, old) == IF i = 1 THEN V2Template(d) ELSE old

\* the dialects the two backfill statements are compared under
FillDialects == {"postgres", "sqlite3"}

\* variant of NextVersion: the loop does not advance
NextVersionStay(v) == v

\* version++ of the for statement
NextVersion(v) == v + 1

\* one database operation of the loop body, on loop index v, and its outcome
Event(op, v, ok) == [op |-> op, v |-> v, ok |-> ok]

\* a store no Upgrade() has touched
FreshStore == [table |-> FALSE, eff |-> NoEffects, rows |-> <<>>]

\* the engine before its first Upgrade() call, on the committed store d
StoreInit(d) ==
    /\ durable = d
    /\ tx = ClosedTx
    /\ leaked = 0
    /\ pc = "idle"
    /\ version = 0
    /\ err = FALSE
    /\ errOp = "none"
    /\ gvRet = [version |-> 0, err |-> FALSE]
    /\ gvReadFailed = FALSE
    /\ invoked = <<>>
    /\ commits = 0
    /\ startVer = 0
    /\ startTable = FALSE
    /\ prevFailAt = -1
    /\ calls = 0
    /\ committed = IF d.rows = <<>> THEN 0 ELSE d.rows[1]
    /\ log = <<>>
    /\ prevFailOp = "none"
    /\ dialect \in Dialects
    /\ v2sql = "none"

EngineInit == StoreInit(FreshStore)

\* no backfill has run on the tables
NotFilled == [d \in FillDialects |-> [done |-> FALSE, rows |-> {}]]

Init ==
    /\ EngineInit
    /\ devices = {}
    /\ identities = {}
    /\ filled = NotFilled

\* return err / return nil of Upgrade()
Return(e, op) ==
    /\ pc' = "done"
    /\ err' = e
    /\ errOp' = op

LoopOps == {"begin", "step", "delete", "insert", "commit"}

\* the caller invokes c.Upgrade()
CallUpgrade ==
    /\ pc \in {"idle", "done"}
    /\ calls < MaxCalls
    /\ calls' = calls + 1
    /\ pc' = "gv_create"
    /\ prevFailAt' = IF pc = "done" /\ err /\ errOp \in LoopOps THEN version ELSE -1
    /\ startVer' = PersistedVersion
    /\ startTable' = durable.table
    /\ version' = 0
    /\ err' = FALSE
    /\ errOp' = "none"
    /\ gvReadFailed' = FALSE
    /\ invoked' = <<>>
    /\ commits' = 0
    /\ log' = <<>>
    /\ prevFailOp' = IF pc = "done" /\ err THEN errOp ELSE "none"
    /\ v2sql' = "none"
    /\ UNCHANGED <<durable, tx, leaked, gvRet,
                   committed, dialect, fillVars>>

\* getVersion: CREATE TABLE IF NOT EXISTS whatsmeow_version succeeds
GetVersionCreateOk ==
    /\ pc = "gv_create"
    /\ durable' = CreateTableIfNotExists(durable)
    /\ pc' = "gv_query"
    /\ UNCHANGED <<tx, leaked, version, err, errOp, gvRet, gvReadFailed,
                   invoked, commits, startVer, startTable, prevFailAt, calls,
                   committed, log, prevFailOp, dialect, v2sql, fillVars>>

\* getVersion: the CREATE TABLE fails: return -1, err; Upgrade returns err
GetVersionCreateFail ==
    /\ pc = "gv_create"
    /\ gvRet' = [version |-> -1, err |-> TRUE]
    /\ Return(TRUE, "create")
    /\ UNCHANGED <<durable, tx, leaked, version, gvReadFailed, invoked,
                   commits, startVer, startTable, prevFailAt, calls,
                   committed, log, prevFailOp, dialect, v2sql, fillVars>>

\* getVersion: the row (or its absence) is read; return version, nil
GetVersionScanOk ==
    /\ pc = "gv_query"
    /\ gvRet' = [version |-> QueryVersion(durable.rows), err |-> FALSE]
    /\ version' = QueryVersion(durable.rows)
    /\ pc' = "loop"
    /\ UNCHANGED <<durable, tx, leaked, err, errOp, gvReadFailed, invoked,
                   commits, startVer, startTable, prevFailAt, calls,
                   committed, log, prevFailOp, dialect, v2sql, fillVars>>

\* getVersion: the SELECT fails; the error of row.Scan is discarded and the
\* initial value of `version` is returned with a nil error
GetVersionScanFail ==
    /\ pc = "gv_query"
    /\ gvReadFailed' = TRUE
    /\ gvRet' = [version |-> 0, err |-> FALSE]
    /\ version' = 0
    /\ pc' = "loop"
    /\ UNCHANGED <<durable, tx, leaked, err, errOp, invoked, commits,
                   startVer, startTable, prevFailAt, calls,
                   committed, log, prevFailOp, dialect, v2sql, fillVars>>

\* loop condition true: enter the body
LoopEnter ==
    /\ pc = "loop"
    /\ LoopCond(version)
    /\ pc' = "begin"
    /\ UNCHANGED <<durable, tx, leaked, version, err, errOp, gvRet,
                   gvReadFailed, invoked, commits, startVer, startTable,
                   prevFailAt, calls,
                   committed, log, prevFailOp, dialect, v2sql, fillVars>>

\* loop condition false: return nil
LoopExit ==
    /\ pc = "loop"
    /\ ~LoopCond(version)
    /\ Return(FALSE, "none")
    /\ UNCHANGED <<durable, tx, leaked, version, gvRet, gvReadFailed, invoked,
                   commits, startVer, startTable, prevFailAt, calls,
                   committed, log, prevFailOp, dialect, v2sql, fillVars>>

\* tx, err = c.db.Begin() succeeds: the transaction sees the committed store
BeginOk ==
    /\ pc = "begin"
    /\ tx' = [open |-> TRUE, eff |-> durable.eff, rows |-> durable.rows]
    /\ log' = Append(log, Event("begin", version, TRUE))
    /\ pc' = "step"
    /\ UNCHANGED <<durable, leaked, version, err, errOp, gvRet, gvReadFailed,
                   invoked, commits, startVer, startTable, prevFailAt, calls,
                   committed, prevFailOp, dialect, v2sql, fillVars>>

\* c.db.Begin() fails: return err
BeginFail ==
    /\ pc = "begin"
    /\ log' = Append(log, Event("begin", version, FALSE))
    /\ Return(TRUE, "begin")
    /\ UNCHANGED <<durable, tx, leaked, version, gvRet, gvReadFailed, invoked,
                   commits, startVer, startTable, prevFailAt, calls,
                   committed, prevFailOp, dialect, v2sql, fillVars>>

\* migrateFunc(tx, c) returns nil
StepOk ==
    /\ pc = "step"
    /\ ~StepBlocked(tx.eff, version)
    /\ tx' = [tx EXCEPT !.eff[version] = "full"]
    /\ invoked' = Append(invoked, version)
    /\ log' = Append(log, Event("step", version, TRUE))
    /\ v2sql' = StepSql(version, dialect, v2sql)
    /\ pc' = "setversion"
    /\ UNCHANGED <<durable, leaked, version, err, errOp, gvRet, gvReadFailed,
                   commits, startVer, startTable, prevFailAt, calls,
                   committed, prevFailOp, dialect, fillVars>>

\* migrateFunc(tx, c) returns an error, after none or some of its statements
StepFail ==
    /\ pc = "step"
    /\ \E e \in {"none", "partial"} :
          /\ StepBlocked(tx.eff, version) => e = "none"
          /\ tx' = IF StepBlocked(tx.eff, version)
                   THEN tx
                   ELSE [tx EXCEPT !.eff[version] = e]
          /\ v2sql' = IF e = "partial"
                      THEN StepSql(version, dialect, v2sql)
                      ELSE v2sql
    /\ invoked' = Append(invoked, version)
    /\ log' = Append(log, Event("step", version, FALSE))
    /\ pc' = "rollback"
    /\ UNCHANGED <<durable, leaked, version, err, errOp, gvRet, gvReadFailed,
                   commits, startVer, startTable, prevFailAt, calls,
                   committed, prevFailOp, dialect, fillVars>>

\* _ = tx.Rollback(); return err
StepRollback ==
    /\ pc = "rollback"
    /\ durable' = RollbackDurable(durable, tx)
    /\ tx' = ClosedTx
    /\ Return(TRUE, "step")
    /\ UNCHANGED <<leaked, version, gvRet, gvReadFailed, invoked, commits,
                   startVer, startTable, prevFailAt, calls,
                   committed, log, prevFailOp, dialect, v2sql, fillVars>>

\* c.setVersion(tx, version+1) returns nil
SetVersionOk ==
    /\ pc = "setversion"
    /\ tx' = [tx EXCEPT !.rows = SetVersionRows(tx.rows, version + 1)]
    /\ log' = Append(log, Event("setVersion", version, TRUE))
    /\ pc' = "commit"
    /\ UNCHANGED <<durable, leaked, version, err, errOp, gvRet, gvReadFailed,
                   invoked, commits, startVer, startTable, prevFailAt, calls,
                   committed, prevFailOp, dialect, v2sql, fillVars>>

\* setVersion: the DELETE fails; Upgrade returns err, tx is neither committed
\* nor rolled back and its handle is lost
SetVersionDeleteFail ==
    /\ pc = "setversion"
    /\ tx' = ClosedTx
    /\ leaked' = leaked + 1
    /\ log' = Append(log, Event("setVersion", version, FALSE))
    /\ Return(TRUE, "delete")
    /\ UNCHANGED <<durable, version, gvRet, gvReadFailed, invoked, commits,
                   startVer, startTable, prevFailAt, calls,
                   committed, prevFailOp, dialect, v2sql, fillVars>>

\* variant of SetVersionInsertFail: the transaction is committed on the way
\* out, as a deferred tx.Commit() would
SetVersionInsertFailCommits ==
    /\ pc = "setversion"
    /\ durable' = CommitDurable(durable, [tx EXCEPT !.rows = DeleteRows(tx.rows)])
    /\ tx' = ClosedTx
    /\ log' = Append(log, Event("setVersion", version, FALSE))
    /\ Return(TRUE, "insert")
    /\ UNCHANGED <<leaked, version, gvRet, gvReadFailed, invoked, commits,
                   startVer, startTable, prevFailAt, calls,
                   committed, prevFailOp, dialect, v2sql, fillVars>>

\* setVersion: the DELETE succeeds, the INSERT fails; as above
SetVersionInsertFail ==
    /\ pc = "setversion"
    /\ tx' = ClosedTx
    /\ leaked' = leaked + 1
    /\ log' = Append(log, Event("setVersion", version, FALSE))
    /\ Return(TRUE, "insert")
    /\ UNCHANGED <<durable, version, gvRet, gvReadFailed, invoked, commits,
                   startVer, startTable, prevFailAt, calls,
                   committed, prevFailOp, dialect, v2sql, fillVars>>

\* tx.Commit() succeeds; version++
CommitOk ==
    /\ pc = "commit"
    /\ durable' = CommitDurable(durable, tx)
    /\ tx' = ClosedTx
    /\ version' = NextVersion(version)
    /\ commits' = commits + 1
    /\ committed' = committed + 1
    /\ log' = Append(log, Event("commit", version, TRUE))
    /\ pc' = "loop"
    /\ UNCHANGED <<leaked, err, errOp, gvRet, gvReadFailed, invoked,
                   startVer, startTable, prevFailAt, calls,
                   prevFailOp, dialect, v2sql, fillVars>>

\* tx.Commit() fails: the transaction is finished without becoming durable
CommitFail ==
    /\ pc = "commit"
    /\ tx' = ClosedTx
    /\ log' = Append(log, Event("commit", version, FALSE))
    /\ Return(TRUE, "commit")
    /\ UNCHANGED <<durable, leaked, version, gvRet, gvReadFailed, invoked,
                   commits, startVer, startTable, prevFailAt, calls,
                   committed, prevFailOp, dialect, v2sql, fillVars>>

Next ==
    \/ CallUpgrade
    \/ GetVersionCreateOk
    \/ GetVersionCreateFail
    \/ GetVersionScanOk
    \/ GetVersionScanFail
    \/ LoopEnter
    \/ LoopExit
    \/ BeginOk
    \/ BeginFail
    \/ StepOk
    \/ StepFail
    \/ StepRollback
    \/ SetVersionOk
    \/ SetVersionDeleteFail
    \/ SetVersionInsertFail
    \/ CommitOk
    \/ CommitFail

Spec == Init /\ [][Next]_vars

(***************************************************************************)
(* The backfill of upgradeV2: fillSigKeyPostgres and fillSigKeySQLite as   *)
(* functions from the two tables to the resulting whatsmeow_device rows.   *)
(* Strings are sequences of characters, NULL is the string "NULL".         *)
(***************************************************************************)

\* longest jid, most device rows and most identity rows explored
MaxJidLen == 2

MaxDevices == 2

MaxIdentities == 1

\* the characters jids are made of
Chars == {"a", "."}

\* values of the identity column
Keys == {"k1", "k2"}

RECURSIVE Strs(_)
\* the strings of at most n characters
Strs(n) ==
    IF n = 0 THEN {<<>>}
    ELSE LET P == Strs(n - 1) IN P \cup {Append(p, c) : p \in P, c \in Chars}

RECURSIVE SetsUpTo(_, _)
\* the subsets of S with at most n elements
SetsUpTo(S, n) ==
    IF n = 0 THEN {{}}
    ELSE LET P == SetsUpTo(S, n - 1) IN P \cup {q \cup {x} : q \in P, x \in S}

\* values of whatsmeow_device.jid
Jids == Strs(MaxJidLen) \ {<<>>}

\* SQLite instr(X, c): position of the first c in X counted from 1, 0 if none
Instr(s, c) ==
    IF \E i \in 1 .. Len(s) : s[i] = c
    THEN CHOOSE i \in 1 .. Len(s) :
             s[i] = c /\ \A j \in 1 .. (i - 1) : s[j] # c
    ELSE 0

\* SQLite substr(X, Y, Z) for Y >= 0 and Z >= 0: the characters of X at the
\* positions Y .. Y+Z-1, positions counted from 1 (position 0 holds nothing)
Substr(s, y, z) ==
    LET lo == IF y < 1 THEN 1 ELSE y
        hi == IF y + z - 1 > Len(s) THEN Len(s) ELSE y + z - 1
    IN  SubSeq(s, lo, hi)

\* Postgres split_part(X, c, 1): X up to its first c, all of X if it has none
SplitPart1(s, c) ==
    IF Instr(s, c) = 0 THEN s ELSE SubSeq(s, 1, Instr(s, c) - 1)

\* concat(split_part(whatsmeow_device.jid, '.', 1), '0')
PostgresTheirId(jid) == SplitPart1(jid, ".") \o <<"0">>

\* substr(whatsmeow_device.jid, 0, instr(whatsmeow_device.jid, '.')) || '0'
SQLiteTheirId(jid) == Substr(jid, 0, Instr(jid, ".")) \o <<"0">>

\* SELECT identity FROM whatsmeow_identity_keys WHERE our_jid=.. AND
\* their_id=..: the identity of the matching row, NULL when there is none
SelectIdentity(idents, jid, tid) ==
    IF \E r \in idents : r.our_jid = jid /\ r.their_id = tid
    THEN (CHOOSE r \in idents : r.our_jid = jid /\ r.their_id = tid).identity
    ELSE "NULL"

\* fillSigKeyPostgres: UPDATE, then DELETE the rows left NULL (SET NOT NULL
\* then holds of every remaining row)
FillSigKeyPostgres(devs, idents) ==
    LET updated == {[jid |-> j,
                     adv_account_sig_key |->
                         SelectIdentity(idents, j, PostgresTheirId(j))] :
                    j \in devs}
    IN  {r \in updated : r.adv_account_sig_key # "NULL"}

\* fillSigKeySQLite: the UPDATE alone
FillSigKeySQLite(devs, idents) ==
    {[jid |-> j,
      adv_account_sig_key |-> SelectIdentity(idents, j, SQLiteTheirId(j))] :
     j \in devs}

\* upgradeV2 after its ALTER TABLE, under dialect d
Backfill(d, devs, idents) ==
    IF V2Template(d) = "fillSigKeyPostgres"
    THEN FillSigKeyPostgres(devs, idents)
    ELSE FillSigKeySQLite(devs, idents)

\* their_id values the two statements can look up
TheirIds == {PostgresTheirId(j) : j \in Jids} \cup {SQLiteTheirId(j) : j \in Jids}

\* PRIMARY KEY (our_jid, their_id)
IdentityKeyUnique(idents) ==
    \A r1, r2 \in idents :
        (r1.our_jid = r2.our_jid /\ r1.their_id = r2.their_id) => r1 = r2

\* whatsmeow_identity_keys over the given devices: our_jid references
\* whatsmeow_device (jid)
IdentityTables(devs) ==
    {t \in SetsUpTo([our_jid : devs, their_id : TheirIds, identity : Keys],
                    MaxIdentities) : IdentityKeyUnique(t)}

engineVars == <<durable, tx, leaked, pc, version, err, errOp, gvRet,
                gvReadFailed, invoked, commits, startVer, startTable,
                prevFailAt, calls, committed, log, prevFailOp, dialect, v2sql>>

\* the two tables as upgradeV1 left them, any contents
FillInit ==
    /\ EngineInit
    /\ dialect = "postgres"
    /\ devices \in SetsUpTo(Jids, MaxDevices)
    /\ identities \in IdentityTables(devices)
    /\ filled = NotFilled

\* the backfill runs on the tables under dialect d
RunBackfill(d) ==
    /\ ~filled[d].done
    /\ filled' = [filled EXCEPT
                     ![d] = [done |-> TRUE,
                             rows |-> Backfill(d, devices, identities)]]
    /\ UNCHANGED <<engineVars, devices, identities>>

RunBackfillPostgres == RunBackfill("postgres")

RunBackfillSQLite == RunBackfill("sqlite3")

FillNext ==
    \/ RunBackfillPostgres
    \/ RunBackfillSQLite

FillSpec == FillInit /\ [][FillNext]_vars

\* how far ahead of this registry a store written by a later release is
MaxAhead == 1

\* stores a release with more steps has upgraded: every step of this
\* registry is applied and the version row is beyond N
AheadStores ==
    {[table |-> TRUE, eff |-> [i \in Steps |-> "full"], rows |-> <<v>>] :
        v \in (N + 1) .. (N + MaxAhead)}

\* a fresh store, or one last written by a later release
AheadInit ==
    /\ \E d \in {FreshStore} \cup AheadStores : StoreInit(d)
    /\ devices = {}
    /\ identities = {}
    /\ filled = NotFilled

AheadSpec == AheadInit /\ [][Next]_vars

TypeOK ==
    /\ durable.table \in BOOLEAN
    /\ durable.eff \in [Steps -> EffectStates]
    /\ tx.open \in BOOLEAN
    /\ tx.eff \in [Steps -> EffectStates]
    /\ leaked \in 0 .. MaxCalls
    /\ pc \in {"idle", "gv_create", "gv_query", "loop", "begin", "step",
               "rollback", "setversion", "commit", "done"}
    /\ version \in 0 .. (N + MaxAhead)
    /\ calls \in 0 .. MaxCalls

(***************************************************************************)
(* Properties                                                              *)
(***************************************************************************)

\* C1: in every committed state, the effect of step i is present if and only
\* if the persisted version is at least i+1; nothing of a step is durable
\* without its version bump and no version bump without the whole step.
StepVersionAtomic ==
    \A i \in Steps :
        /\ durable.eff[i] # "none" => PersistedVersion >= i + 1
        /\ PersistedVersion >= i + 1 => durable.eff[i] = "full"

\* C1 witness: a commit failed after two steps had been committed
StepVersionAtomicWitness ==
    /\ pc = "done"
    /\ errOp = "commit"
    /\ PersistedVersion = 2
    /\ durable.eff[1] = "full"
    /\ durable.eff[2] = "none"

\* C2: Upgrade invokes registry step i only when the persisted version is i,
\* also in calls whose read of the version row fails.
StepInvokedAtPersistedVersion ==
    pc = "step" => version = PersistedVersion

\* C3: when step k fails in a call started on a store at version 0, Upgrade
\* returns an error, the persisted version is k, steps 0..k-1 are committed
\* and nothing of step k is durable; any failed call leaves the store at the
\* last version it completed.
FailedStepKeepsVersion ==
    /\ (pc = "done" /\ startVer = 0 /\ errOp = "step") =>
          /\ err
          /\ PersistedVersion = version
          /\ \A i \in Steps :
                durable.eff[i] = IF i < version THEN "full" ELSE "none"
    /\ (pc = "done" /\ err) =>
          /\ PersistedVersion = startVer + commits
          /\ \A i \in Steps :
                durable.eff[i] = IF i < startVer + commits THEN "full" ELSE "none"

\* C3 witness: the first call, on a fresh store, fails in step 2 after the
\* step had executed some of its statements
FailedStepKeepsVersionWitness ==
    /\ pc = "done"
    /\ calls = 1
    /\ startVer = 0
    /\ errOp = "step"
    /\ version = 2
    /\ invoked = <<0, 1, 2>>

\* C4: after a call failed in iteration k, the first step the next call
\* invokes is step k.
ResumeAtFailedStep ==
    (pc = "step" /\ invoked = <<>> /\ prevFailAt >= 0) => version = prevFailAt

\* C5: a call that starts at version 0 and returns no error leaves the
\* persisted version at N with the effect of every step durable.
FreshUpgradeReachesLatest ==
    (pc = "done" /\ ~err /\ startVer = 0) =>
        /\ PersistedVersion = N
        /\ \A i \in Steps : durable.eff[i] = "full"

\* C5 witness: the first call on the fresh store returned nil
FreshUpgradeReachesLatestWitness ==
    /\ pc = "done"
    /\ ~err
    /\ startVer = 0
    /\ calls = 1
    /\ commits = N

TransactionsReleased ==
    pc \in {"done", "begin"} => (~tx.open /\ leaked = 0)

\* C8: an I/O failure inside getVersion or setVersion is returned as an
\* error; a failed read of the version row is not reported as a success.
IOFailuresSurface ==
    /\ gvReadFailed => gvRet.err
    /\ (pc = "done" /\ errOp \in {"create", "delete", "insert"}) => err
    /\ (pc = "done" /\ errOp = "create") => gvRet.err

\* C9 (as stated): getVersion on a store without version table returns 0 and
\* nil, and afterwards the table exists and holds exactly one row.
GetVersionLeavesOneRow ==
    (pc = "loop" /\ commits = 0 /\ ~startTable) =>
        /\ gvRet = [version |-> 0, err |-> FALSE]
        /\ durable.table
        /\ Len(durable.rows) = 1

\* C9 (amended): getVersion on a store without version table, when its
\* CREATE TABLE succeeds, returns 0 and nil, and afterwards the table exists
\* and holds no row.
GetVersionLeavesEmptyTable ==
    (pc = "loop" /\ commits = 0 /\ ~startTable) =>
        /\ gvRet = [version |-> 0, err |-> FALSE]
        /\ durable.table
        /\ Len(durable.rows) = 0

\* C9 witness: getVersion has just returned on a store that had no table
GetVersionLeavesEmptyTableWitness ==
    /\ pc = "loop"
    /\ commits = 0
    /\ ~startTable
    /\ calls = 1
    /\ durable.table

\* C10: the committed version table never holds more than one row, and once
\* the transaction of a successful setVersion(tx, v) has committed it holds
\* exactly the row v.
AtMostOneVersionRow ==
    /\ Len(durable.rows) <= 1
    /\ pc = "commit" => tx.rows = <<version + 1>>
    /\ (pc = "loop" /\ commits > 0) => durable.rows = <<version>>

\* C10 witness: a setVersion that started from a one-row table has committed
AtMostOneVersionRowWitness ==
    /\ pc = "loop"
    /\ commits > 0
    /\ version = 2
    /\ durable.rows = <<2>>

\* C11: in every committed state the persisted version, 0 when there is no
\* row, equals the number of step transactions committed since the store
\* was fresh.
VersionCountsCommits ==
    PersistedVersion = committed

\* C11 witness: a later call, whose version read failed, has returned after
\* three step transactions had been committed
VersionCountsCommitsWitness ==
    /\ pc = "done"
    /\ calls >= 2
    /\ gvReadFailed
    /\ committed = 3
    /\ PersistedVersion = 3

\* C12: under a dialect upgradeV2 has no backfill statement for, upgradeV2
\* executes no other dialect's statement and does not return nil.
UnsupportedDialectFailsClosed ==
    dialect \notin TemplateDialects =>
        /\ v2sql = "none"
        /\ ~(pc = "setversion" /\ version = 1)

\* C13: from the same whatsmeow_device and whatsmeow_identity_keys rows, the
\* backfill leaves the same device rows with the same adv_account_sig_key
\* under the postgres and the sqlite dialect.
BackfillDialectsAgree ==
    (filled["postgres"].done /\ filled["sqlite3"].done) =>
        filled["postgres"].rows = filled["sqlite3"].rows

\* C14: when setVersion(tx, k+1) or the commit of iteration k fails, Upgrade
\* returns an error with the persisted version still k and nothing of step k
\* durable, and this is still so after a later call that fails before it
\* commits anything.
FailedPersistLeavesStore ==
    /\ (pc = "done" /\ errOp \in {"delete", "insert", "commit"}) =>
          /\ err
          /\ PersistedVersion = version
          /\ durable.eff[version] = "none"
    /\ (pc = "done" /\ err /\ commits = 0
            /\ prevFailOp \in {"delete", "insert", "commit"}) =>
          /\ PersistedVersion = prevFailAt
          /\ durable.eff[prevFailAt] = "none"

\* C14 witness: the commit of iteration 1 failed, and the next call has
\* failed in its Begin
FailedPersistLeavesStoreWitness ==
    /\ pc = "done"
    /\ err
    /\ commits = 0
    /\ prevFailOp = "commit"
    /\ prevFailAt = 1
    /\ errOp = "begin"

\* C15: after the first failing operation of a call the call invokes no
\* step, begins no transaction and commits nothing more; when getVersion or
\* Begin fails no step is invoked for that iteration.
ErrorsAbortCall ==
    /\ gvReadFailed => (log = <<>> /\ invoked = <<>> /\ commits = 0 /\ ~tx.open)
    /\ \A j \in 1 .. (Len(log) - 1) : log[j].ok
    /\ (pc = "done" /\ errOp \in {"create", "begin"}) => Len(invoked) = commits

\* the database operations of one loop iteration, in the order of the body
OpOrder == <<"begin", "step", "setVersion", "commit">>

\* C16: within a call the loop's operations come in the order Begin, step v,
\* setVersion, Commit for v = the version read, v+1, ..; an operation is
\* only followed by another if it succeeded, so a Begin follows only a
\* successful Commit, and a transaction is open only between its Begin and
\* its Commit or Rollback.
IterationsInOrder ==
    /\ \A j \in 1 .. Len(log) :
          /\ log[j].op = OpOrder[((j - 1) % 4) + 1]
          /\ log[j].v = gvRet.version + ((j - 1) \div 4)
          /\ j < Len(log) => log[j].ok
    /\ tx.open => /\ pc \in {"step", "rollback", "setversion", "commit"}
                  /\ log # <<>>
    /\ pc = "step" => log[Len(log)] = Event("begin", version, TRUE)

\* C16 witness: two iterations have run to their commit in one call
IterationsInOrderWitness ==
    /\ pc = "loop"
    /\ Len(log) = 8
    /\ log[5] = Event("begin", 1, TRUE)
    /\ log[8] = Event("commit", 1, TRUE)

\* C17: the persisted version never decreases; a successful commit raises it
\* by exactly 1 and nothing else changes it.
VersionMonotone ==
    [][/\ PersistedVersion' >= PersistedVersion
       /\ committed' # committed => PersistedVersion' = PersistedVersion + 1
       /\ committed' = committed => PersistedVersion' = PersistedVersion]_vars

\* C17 witness: the read of the version row failed on a store at version 2,
\* Upgrade went on from 0 and returned; the store is still at version 2
VersionMonotoneWitness ==
    /\ pc = "done"
    /\ gvReadFailed
    /\ version = 0
    /\ invoked = <<0>>
    /\ PersistedVersion = 2

\* C18: a call that starts at persisted version v <= N invokes at most N - v
\* steps, no step twice, and a call in which no operation fails returns nil
\* with the persisted version at N.
BoundedSteps ==
    /\ startVer <= N => Len(invoked) <= N - startVer
    /\ \A i, j \in 1 .. Len(invoked) : i # j => invoked[i] # invoked[j]
    /\ (pc = "done" /\ ~gvReadFailed /\ errOp = "none") =>
          (~err /\ PersistedVersion = N)

====
